---- MODULE Spec2Model ----
(***************************************************************************)
(* Modelflow server: the predict proxy (routes/predict.js), the model      *)
(* registry (routes/models.js), the storage adapter (config/s3.js) and the *)
(* models collection (models/Model.js), as one state machine.              *)
(*                                                                         *)
(* Every request is an async Express handler.  A handler runs without      *)
(* interruption between two awaits, so each action below is one such       *)
(* segment together with the database or file-system call that ends it.    *)
(***************************************************************************)
EXTENDS Integers, Sequences, FiniteSets, TLC

(* ------------------------------ bounds -------------------------------- *)

MaxSlots == 2       \* requests in flight at the same time
MaxModels == 2      \* Model rows ever created (ObjectIds handed out)
MaxUsage == 2       \* cap on usageCount
MaxFields == 1      \* fields present in one predict request

(* --------------------------- JSON and files --------------------------- *)

\* A JSON value of a request body, by what the handlers can tell apart:
\* presence, truthiness and Array.isArray.
Absent == "absent"
JsonValues == {"false", "num0", "str_empty", "str", "arr_empty", "arr", "obj"}

\* JavaScript truthiness ( !x , x || y ).
Truthy(v) == v \notin {Absent, "null", "false", "num0", "str_empty"}

IsArray(v) == v \in {"arr_empty", "arr"}

\* a || b
OrElse(a, b) == IF Truthy(a) THEN a ELSE b

\* An uploaded multipart file: none, a file of zero bytes, a file with bytes.
NoFile == "nofile"
Buffers == {"buf_empty", "buf_bytes"}

\* buffer.toString("base64") and buffer.toString("utf-8"); of a missing file
\* the optional chain gives undefined.
Base64(f) == CASE f = NoFile -> Absent
               [] f = "buf_empty" -> "str_empty"
               [] OTHER -> "b64_of_bytes"

Utf8(f) == CASE f = NoFile -> Absent
             [] f = "buf_empty" -> "str_empty"
             [] OTHER -> "utf8_of_bytes"

FileFields == {"image", "csv", "file"}
JsonFields == {"image_base64", "text", "texts", "csv_data", "data", "inputs"}

EmptyBody == [f \in FileFields \cup JsonFields |->
                 IF f \in FileFields THEN NoFile ELSE Absent]

FieldValues == (FileFields \X Buffers) \cup (JsonFields \X JsonValues)

\* Request bodies with at most n fields present.
RECURSIVE BodiesUpTo(_)
BodiesUpTo(n) ==
    IF n = 0 THEN {EmptyBody}
    ELSE LET prev == BodiesUpTo(n - 1)
         IN  prev \cup {[b EXCEPT ![fv[1]] = fv[2]] : b \in prev, fv \in FieldValues}

Bodies == BodiesUpTo(MaxFields)

(* ------------------------- slug and API key --------------------------- *)

Lower(c) == CASE c = "A" -> "a" [] c = "B" -> "b" [] OTHER -> c

IsAlnum(c) == c \in {"a", "b", "c", "0", "1", "2"}

\* .replace(/[^a-z0-9]+/g, "-")
RECURSIVE ReplaceRuns(_, _)
ReplaceRuns(s, inRun) ==
    IF s = <<>> THEN <<>>
    ELSE IF IsAlnum(Head(s)) THEN <<Head(s)>> \o ReplaceRuns(Tail(s), FALSE)
    ELSE IF inRun THEN ReplaceRuns(Tail(s), TRUE)
    ELSE <<"-">> \o ReplaceRuns(Tail(s), TRUE)

\* .replace(/^-|-$/g, "")
TrimDashes(s) ==
    LET a == IF s # <<>> /\ Head(s) = "-" THEN Tail(s) ELSE s
    IN  IF a # <<>> /\ a[Len(a)] = "-" THEN SubSeq(a, 1, Len(a) - 1) ELSE a

Slugify(name) ==
    TrimDashes(ReplaceRuns([i \in 1..Len(name) |-> Lower(name[i])], FALSE))

\* crypto.randomBytes(4).toString("hex"): any value may be drawn, twice too.
HexSuffixes == {<<"0a0a0a0a">>, <<"1b1b1b1b">>}

generateSlug(name, rnd) == Slugify(name) \o <<"-">> \o rnd

\* "mlh_" + crypto.randomBytes(24).toString("hex")
HexKeys == {"k1", "k2"}

generateApiKey(rnd) == <<"mlh_", rnd>>

\* Names a client sends; <<>> is a missing or empty name.  The two non-empty
\* names differ and slugify to the same text.
Names == {<<"A", " ", "b">>, <<"a", "-", "-", "b">>}

Users == {"u1", "u2"}

Slugs == {generateSlug(n, r) : n \in Names, r \in HexSuffixes}

ApiKeys == {generateApiKey(r) : r \in HexKeys}

\* Values of the X-API-Key header: missing, or some key.
NoKey == <<>>
KeyHeaders == {NoKey} \cup ApiKeys

(* ------------------------------- state -------------------------------- *)

VARIABLES
    server,         \* the process: starting, connected, listening or exited
    inferenceUrl,   \* process.env.INFERENCE_SERVICE_URL is set
    variant,        \* the predict router this deployment mounts
    uniqueIndex,    \* the models collection has its unique indexes built
    models,         \* the models collection: a set of rows
    nextId,         \* the next ObjectId to hand out
    storage,        \* the upload directory: storage key -> bytes
    slugsDrawn,     \* history: the slugs generateSlug has returned, and those
                    \* it has returned more than once
    slots           \* the connections: a request at one of its awaits, or its answer

vars == <<server, inferenceUrl, variant, uniqueIndex, models, nextId, storage, slugsDrawn, slots>>

Slots == 1..MaxSlots

InputTypeEnum == {"image", "text", "multi_text", "csv", "numeric", "json"}
OutputTypeEnum == {"classification", "regression", "text", "image", "json"}

NoStorageKey == <<>>

NoRow == [id |-> 0, userId |-> "", name |-> <<>>, slug |-> <<>>, apiKey |-> <<>>,
          s3ModelKey |-> NoStorageKey, s3ReadmeKey |-> NoStorageKey,
          inputType |-> "", outputType |-> "", usageCount |-> 0, isPublic |-> FALSE]

RowFields == DOMAIN NoRow

NoPayload == [model_path |-> <<>>, model_key |-> <<>>, input_type |-> "",
              output_type |-> "", image_base64 |-> Absent, text |-> Absent,
              texts |-> Absent, csv_data |-> Absent, json_data |-> Absent,
              inputs |-> Absent]

TypedFields == {"image_base64", "text", "texts", "csv_data", "json_data", "inputs"}

\* The JSON object of a downstream answer: a function from the keys it has.
EmptyObject == [k \in {} |-> ""]

NoReq == [none |-> TRUE]

NoResp == [kind |-> "none", status |-> 0, error |-> "", details |-> Absent,
           body |-> EmptyObject, req |-> NoReq, row |-> NoRow, sent |-> FALSE,
           downstream |-> 0, data |-> EmptyObject, errorData |-> Absent,
           incs |-> 0, fields |-> {}, rows |-> {}, duplicate |-> FALSE,
           overwritten |-> {}]

IdleSlot == [pc |-> "idle", req |-> NoReq, model |-> NoRow, payload |-> NoPayload,
             data |-> EmptyObject, doc |-> NoRow, readme |-> NoFile,
             overwritten |-> {}, resp |-> NoResp]

(* ----------------------------- storage -------------------------------- *)

\* fs.writeFileSync(path.join(UPLOAD_DIR, key), fileBuffer)
uploadToS3(st, fileBuffer, key) ==
    [k \in DOMAIN st \cup {key} |-> IF k = key THEN fileBuffer ELSE st[k]]

\* fs.existsSync(filePath) and then fs.unlinkSync(filePath)
deleteFromS3(st, key) == [k \in DOMAIN st \ {key} |-> st[k]]

\* path.join(UPLOAD_DIR, key)
getSignedDownloadUrl(key) == <<"server/uploads", key>>

\* modelPath.replace("/server/uploads", "/inference/uploads")
ReplaceUploads(path) ==
    IF path[1] = "server/uploads" THEN <<"inference/uploads", path[2]>> ELSE path

(* --------------------------- predict proxy ---------------------------- *)

Variants == {"main", "richer"}

\* A case of the switch whose "return" before res.status(400) is lost, so
\* that the handler goes on to the forward.
RejectedButForwarded(msg) == [ok |-> TRUE, error |-> msg, payload |-> NoPayload]

\* return res.status(400).json({ error: msg })
Rejected(msg) == [ok |-> FALSE, error |-> msg, payload |-> NoPayload]

\* A case of the switch whose "break" is lost, so that the default case
\* copies req.body.inputs into the payload as well.
AcceptedNoBreak(p) == [ok |-> TRUE, error |-> "", payload |-> [p EXCEPT !.inputs = "arr"]]

\* "break" after a case that has set its field: the handler goes on to the
\* forward with the payload p.
Accepted(p) == [ok |-> TRUE, error |-> "", payload |-> p]

\* routes/predict.js: the payload head and the switch over model.inputType.
PayloadMain(model, body) ==
    LET head == [NoPayload EXCEPT
                    !.model_path = ReplaceUploads(getSignedDownloadUrl(model.s3ModelKey)),
                    !.model_key = model.slug,
                    !.input_type = model.inputType,
                    !.output_type = model.outputType]
        img == OrElse(Base64(body.image), body.image_base64)
        csv == OrElse(Utf8(body.csv), body.csv_data)
    IN  CASE model.inputType = "image" ->
                IF ~Truthy(img) THEN Rejected("Image input required")
                ELSE Accepted([head EXCEPT !.image_base64 = img])
          [] model.inputType = "text" ->
                IF ~Truthy(body.text) THEN Rejected("Text input required")
                ELSE Accepted([head EXCEPT !.text = body.text])
          [] model.inputType = "multi_text" ->
                IF ~IsArray(body.texts) THEN Rejected("Texts array required")
                ELSE Accepted([head EXCEPT !.texts = body.texts])
          [] model.inputType = "csv" ->
                IF ~Truthy(csv) THEN Rejected("CSV input required")
                ELSE Accepted([head EXCEPT !.csv_data = csv])
          [] model.inputType = "json" ->
                IF ~Truthy(body.data) THEN Rejected("JSON data required")
                ELSE Accepted([head EXCEPT !.json_data = body.data])
          [] OTHER ->
                IF ~Truthy(body.inputs) THEN Rejected("Numeric inputs required")
                ELSE Accepted([head EXCEPT !.inputs = body.inputs])

\* The richer router: the generic "file" field stands in for image and csv,
\* and a file that is present is taken whatever its bytes.
PayloadRicher(model, body) ==
    LET head == [NoPayload EXCEPT
                    !.model_path = getSignedDownloadUrl(model.s3ModelKey),
                    !.model_key = model.s3ModelKey,
                    !.input_type = model.inputType,
                    !.output_type = model.outputType]
        imageFile == IF body.image # NoFile THEN body.image ELSE body.file
        csvFile == IF body.csv # NoFile THEN body.csv ELSE body.file
    IN  CASE model.inputType = "image" ->
                IF imageFile # NoFile
                THEN Accepted([head EXCEPT !.image_base64 = Base64(imageFile)])
                ELSE IF Truthy(body.image_base64)
                THEN Accepted([head EXCEPT !.image_base64 = body.image_base64])
                ELSE Rejected("This model expects an image input.")
          [] model.inputType = "text" ->
                IF ~Truthy(body.text) THEN Rejected("This model expects a text input.")
                ELSE Accepted([head EXCEPT !.text = body.text])
          [] model.inputType = "multi_text" ->
                IF ~Truthy(body.texts) \/ ~IsArray(body.texts)
                THEN Rejected("This model expects multiple text inputs.")
                ELSE Accepted([head EXCEPT !.texts = body.texts])
          [] model.inputType = "csv" ->
                IF csvFile # NoFile
                THEN Accepted([head EXCEPT !.csv_data = Utf8(csvFile)])
                ELSE IF Truthy(body.csv_data)
                THEN Accepted([head EXCEPT !.csv_data = body.csv_data])
                ELSE Rejected("This model expects CSV/tabular data.")
          [] model.inputType = "json" ->
                IF ~Truthy(body.data) THEN Rejected("This model expects JSON data input.")
                ELSE Accepted([head EXCEPT !.json_data = body.data])
          [] OTHER ->
                IF ~Truthy(body.inputs) THEN Rejected("This model expects numeric inputs.")
                ELSE Accepted([head EXCEPT !.inputs = body.inputs])

BuildPayload(v, model, body) ==
    IF v = "main" THEN PayloadMain(model, body) ELSE PayloadRicher(model, body)

\* A key check that lets a request without the header through.
KeyMatchesOrMissing(model, key) == key = NoKey \/ model.apiKey = key

\* model.apiKey !== req.headers["x-api-key"], negated.
KeyMatches(model, key) == model.apiKey = key

\* A lookup whose filter is dropped: findOne({}) gives any row.
FindAny(ms, slug) == ms

\* Model.findOne({ slug }): one of the rows with that slug.
FindBySlug(ms, slug) == {m \in ms : m.slug = slug}

\* The handler's copy of the document it found.  No handler reads the copy's
\* usageCount again, so the copy does not carry it.
Found(m) == [m EXCEPT !.usageCount = 0]

\* A read-modify-write with the count every request read at its lookup,
\* before any of them wrote: the row is set to 0 + 1.
StaleWriteUsage(ms, id) ==
    {IF m.id = id THEN [m EXCEPT !.usageCount = 1] ELSE m : m \in ms}

\* An update that takes 1 from the row's usageCount.
DecUsage(ms, id) ==
    {IF m.id = id THEN [m EXCEPT !.usageCount = m.usageCount - 1] ELSE m : m \in ms}

\* An update that adds 2 to the row's usageCount.
IncUsageTwice(ms, id) ==
    {IF m.id = id THEN [m EXCEPT !.usageCount = m.usageCount + 2] ELSE m : m \in ms}

\* An update whose filter is lost: updateMany({}, { $inc }) counts on every row.
IncUsageAll(ms, id) ==
    {[m EXCEPT !.usageCount = m.usageCount + 1] : m \in ms}

\* Model.updateOne({ _id }, { $inc: { usageCount: 1 } }): atomic in the database.
IncUsage(ms, id) ==
    {IF m.id = id THEN [m EXCEPT !.usageCount = m.usageCount + 1] ELSE m : m \in ms}

\* The usageCount of the row with this _id; 0 when the row is gone.
UsageOf(ms, id) ==
    IF \E m \in ms : m.id = id THEN (CHOOSE m \in ms : m.id = id).usageCount ELSE 0

\* A merge that writes the stored name after the downstream fields.
SpreadNameLast(name, data) ==
    [k \in {"model"} \cup DOMAIN data |-> IF k = "model" THEN name ELSE data[k]]

\* { model: model.name, ...response.data }: the keys of data overwrite.
Spread(name, data) ==
    [k \in {"model"} \cup DOMAIN data |-> IF k \in DOMAIN data THEN data[k] ELSE name]

\* The guard of the catch block, error.response?.data, on the body of an
\* HTTP error answer.
HasErrorData(d) == Truthy(d)

\* Requests of this model that will still increment its counter.
Pending(id) == Cardinality({s \in Slots : slots[s].pc \in {"forwarded", "inc"}
                                          /\ slots[s].model.id = id})

\* res.status(...).json(...): the answer stays on the connection until it closes.
Respond(s, r) ==
    slots' = [slots EXCEPT ![s] = [IdleSlot EXCEPT !.pc = "done", !.resp = r]]

Close(s) ==
    /\ slots[s].pc = "done"
    /\ slots' = [slots EXCEPT ![s] = IdleSlot]
    /\ UNCHANGED <<server, inferenceUrl, variant, uniqueIndex, slugsDrawn, models, nextId, storage>>

PredictResp(req, row, status, msg, sent) ==
    [NoResp EXCEPT !.kind = "predict", !.req = req, !.row = row, !.status = status,
                   !.error = msg, !.sent = sent]

\* POST /api/predict/:slug up to its axios.post: the configuration check (main
\* router only), the lookup, the key check, the payload.
PredictEntry(s, slug, key, body, dbOk) ==
    LET req == [slug |-> slug, key |-> key, body |-> body]
        found == FindBySlug(models, slug)
    IN  /\ slots[s].pc = "idle"
        /\ UNCHANGED <<server, inferenceUrl, variant, uniqueIndex, slugsDrawn, models, nextId, storage>>
        /\ IF variant = "main" /\ ~inferenceUrl
           THEN Respond(s, PredictResp(req, NoRow, 500, "Inference service not configured", FALSE))
           ELSE IF ~dbOk
           THEN Respond(s, PredictResp(req, NoRow, 500, "Prediction failed", FALSE))
           ELSE IF found = {}
           THEN Respond(s, PredictResp(req, NoRow, 404, "Model not found", FALSE))
           ELSE \E model \in found :
                  IF ~KeyMatches(model, key)
                  THEN Respond(s, PredictResp(req, model, 403, "Invalid API key", FALSE))
                  ELSE LET built == BuildPayload(variant, model, body)
                       IN  IF ~built.ok
                           THEN Respond(s, PredictResp(req, model, 400, built.error, FALSE))
                           ELSE /\ model.usageCount + Pending(model.id) < MaxUsage
                                /\ slots' = [slots EXCEPT ![s] =
                                      [IdleSlot EXCEPT !.pc = "forwarded", !.req = req,
                                                       !.model = Found(model),
                                                       !.payload = built.payload]]

\* What the inference service can answer with 2xx: a JSON object.
SuccessBodies ==
    {[k \in {"prediction"} |-> <<"c", "a">>],
     [k \in {"prediction", "model"} |-> IF k = "model" THEN <<"c", "b">> ELSE <<"c", "a">>]}

\* The body of an HTTP error answer: a JSON object, or nothing at all.
ErrorBodies == {"obj", "str_empty"}
ErrorStatuses == {500, 422}

\* The await of axios.post ends: a 2xx answer, an HTTP error answer, or no
\* answer (connection refused, 120 s timeout).  Without a configured URL the
\* call goes to "undefined/predict" and cannot be answered.
InferenceOk(s, data) ==
    /\ slots[s].pc = "forwarded"
    /\ inferenceUrl
    /\ slots' = [slots EXCEPT ![s] = [@ EXCEPT !.pc = "inc", !.data = data,
                                               !.payload = NoPayload]]
    /\ UNCHANGED <<server, inferenceUrl, variant, uniqueIndex, slugsDrawn, models, nextId, storage>>

InferenceError(s, status, data) ==
    /\ slots[s].pc = "forwarded"
    /\ inferenceUrl
    /\ UNCHANGED <<server, inferenceUrl, variant, uniqueIndex, slugsDrawn, models, nextId, storage>>
    /\ IF HasErrorData(data)
       THEN Respond(s, [PredictResp(slots[s].req, slots[s].model, 502,
                                    "Inference service error", TRUE)
                           EXCEPT !.details = data, !.downstream = status,
                                  !.errorData = data])
       ELSE Respond(s, [PredictResp(slots[s].req, slots[s].model, 500,
                                    "Prediction failed", TRUE)
                           EXCEPT !.details = Absent, !.downstream = status,
                                  !.errorData = data])

\* A catch block that answers 502 whenever the forward failed.
InferenceNoAnswerIs502(s) ==
    /\ slots[s].pc = "forwarded"
    /\ UNCHANGED <<server, inferenceUrl, variant, uniqueIndex, slugsDrawn, models, nextId, storage>>
    /\ Respond(s, PredictResp(slots[s].req, slots[s].model, 502,
                              "Inference service error", TRUE))

\* A forward without the timeout option: a call that gets no answer never
\* comes back.
InferenceNeverTimesOut(s) ==
    /\ slots[s].pc = "forwarded"
    /\ FALSE
    /\ UNCHANGED vars

\* The await of axios.post ends without an HTTP answer (connection refused,
\* timeout): error.response is undefined.
InferenceNoAnswer(s) ==
    /\ slots[s].pc = "forwarded"
    /\ UNCHANGED <<server, inferenceUrl, variant, uniqueIndex, slugsDrawn, models, nextId, storage>>
    /\ Respond(s, PredictResp(slots[s].req, slots[s].model, 500, "Prediction failed", TRUE))

\* Model.updateOne(...$inc...) and res.json({ model: model.name, ...data }).
PredictInc(s, dbOk) ==
    /\ slots[s].pc = "inc"
    /\ UNCHANGED <<server, inferenceUrl, variant, uniqueIndex, slugsDrawn, nextId, storage>>
    /\ IF ~dbOk
       THEN /\ UNCHANGED models
            /\ Respond(s, [PredictResp(slots[s].req, slots[s].model, 500,
                                       "Prediction failed", TRUE)
                             EXCEPT !.downstream = 200])
       ELSE /\ models' = IncUsage(models, slots[s].model.id)
            /\ Respond(s, [PredictResp(slots[s].req, slots[s].model, 200, "", TRUE)
                             EXCEPT !.body = Spread(slots[s].model.name, slots[s].data),
                                    !.downstream = 200,
                                    !.data = slots[s].data,
                                    !.incs = UsageOf(IncUsage(models, slots[s].model.id), slots[s].model.id)
                                             - UsageOf(models, slots[s].model.id)])

(* -------------------------------- auth -------------------------------- *)

\* The token cookie: missing, not verifiable (bad signature or expired), or
\* signed for a user id; "u0" is an id with no User row.
NoToken == [kind |-> "none", userId |-> ""]
Tokens == {NoToken, [kind |-> "invalid", userId |-> "u1"], [kind |-> "expired", userId |-> "u1"]}
              \cup {[kind |-> "valid", userId |-> u] : u \in Users \cup {"u0"}}

\* jwt.verify(token, JWT_SECRET) returns the payload or throws.
Verifies(token) == token.kind = "valid"

\* A middleware that trusts a verified token without loading its user.
authenticateUnloaded(token) ==
    IF token.kind = "none" THEN [status |-> 401, error |-> "Not authenticated", user |-> ""]
    ELSE IF ~Verifies(token) THEN [status |-> 401, error |-> "Invalid token", user |-> ""]
    ELSE [status |-> 0, error |-> "", user |-> token.userId]

\* middleware/auth.js: 0 when the handler may run with req.user, else the
\* status the middleware answers with.
authenticate(token) ==
    IF token.kind = "none" THEN [status |-> 401, error |-> "Not authenticated", user |-> ""]
    ELSE IF ~Verifies(token) THEN [status |-> 401, error |-> "Invalid token", user |-> ""]
    ELSE IF token.userId \notin Users THEN [status |-> 401, error |-> "User not found", user |-> ""]
    ELSE [status |-> 0, error |-> "", user |-> token.userId]

(* --------------------------- model registry --------------------------- *)

\* The multipart file of an upload: its originalname and its bytes.
NoUpload == [originalname |-> "", buffer |-> NoFile]
ModelFiles == {[originalname |-> "m.h5", buffer |-> b] : b \in {"w1", "w2"}}
ReadmeFiles == {[originalname |-> "README.md", buffer |-> "md"]}

RegistryResp(kind, req, status, msg) ==
    [NoResp EXCEPT !.kind = kind, !.req = req, !.status = status, !.error = msg]

\* Uploads that are past validation and will ask for an ObjectId.
Uploading == Cardinality({s \in Slots : slots[s].pc \in {"readme", "create"}})

\* generateSlug has returned this slug once more.
Drawn(h, slug) ==
    [once |-> h.once \cup {slug},
     again |-> IF slug \in h.once THEN h.again \cup {slug} ELSE h.again]

\* The storage keys of existing Model rows whose bytes a write of buffer
\* under key changes.
Overwrites(st, ms, buffer, key) ==
    {k \in {key} \cap DOMAIN st :
        /\ st[k] # buffer
        /\ \E m \in ms : k \in {m.s3ModelKey, m.s3ReadmeKey}}

\* A check of the name alone.
MissingNameOnly(name, file) == name = <<>>

\* !name || !req.files?.model
MissingNameOrFile(name, file) == name = <<>> \/ file = NoUpload

\* POST /api/models up to the first await that follows a write: authenticate,
\* the name and file check, generateSlug, generateApiKey, the model file
\* written to storage.
UploadEntry(s, token, name, file, readme, inputType, rndSlug, rndKey) ==
    LET req == [token |-> token, name |-> name, file |-> file, readme |-> readme,
                inputType |-> inputType]
        auth == authenticate(token)
        slug == generateSlug(name, rndSlug)
        apiKey == generateApiKey(rndKey)
        modelKey == <<"models", slug, file.originalname>>
        doc == [NoRow EXCEPT !.userId = auth.user, !.name = name, !.slug = slug,
                             !.apiKey = apiKey, !.s3ModelKey = modelKey,
                             !.inputType = IF Truthy(inputType) THEN inputType ELSE "numeric",
                             !.outputType = "classification",
                             !.isPublic = TRUE]
    IN  /\ slots[s].pc = "idle"
        /\ UNCHANGED <<server, inferenceUrl, variant, uniqueIndex, models, nextId>>
        /\ IF auth.status # 0
           THEN /\ Respond(s, RegistryResp("upload", req, auth.status, auth.error))
                /\ UNCHANGED <<storage, slugsDrawn>>
           ELSE IF MissingNameOrFile(name, file)
           THEN /\ Respond(s, RegistryResp("upload", req, 400, "Model name and .h5 file are required"))
                /\ UNCHANGED <<storage, slugsDrawn>>
           ELSE /\ nextId + Uploading <= MaxModels
                /\ slugsDrawn' = Drawn(slugsDrawn, slug)
                /\ storage' = uploadToS3(storage, file.buffer, modelKey)
                /\ slots' = [slots EXCEPT ![s] =
                      [IdleSlot EXCEPT !.pc = IF readme # NoUpload THEN "readme" ELSE "create",
                                       !.req = req, !.doc = doc, !.readme = readme.buffer,
                                       !.overwritten = Overwrites(storage, models, file.buffer, modelKey)]]

\* The README written to storage under models/<slug>/README.md.
UploadReadme(s) ==
    LET readmeKey == <<"models", slots[s].doc.slug, "README.md">>
    IN  /\ slots[s].pc = "readme"
        /\ storage' = uploadToS3(storage, slots[s].readme, readmeKey)
        /\ slots' = [slots EXCEPT ![s] = [@ EXCEPT !.pc = "create",
                                                   !.doc = [@ EXCEPT !.s3ReadmeKey = readmeKey],
                                                   !.overwritten = @ \cup Overwrites(storage, models, slots[s].readme, readmeKey)]]
        /\ UNCHANGED <<server, inferenceUrl, variant, uniqueIndex, slugsDrawn, models, nextId>>

\* Mongoose validation of the document: inputType must be in the enum.
Validates(doc) == doc.inputType \in InputTypeEnum /\ doc.outputType \in OutputTypeEnum

\* A unique index on apiKey alone.
DuplicateApiKeyOnly(ms, doc) == \E m \in ms : m.apiKey = doc.apiKey

\* The unique indexes of slug and apiKey, where they are built.
DuplicateKey(ms, doc) == \E m \in ms : m.slug = doc.slug \/ m.apiKey = doc.apiKey

\* Model.create(...) and the 201 answer, or the catch block's 500.
UploadCreate(s, dbOk) ==
    LET doc == [slots[s].doc EXCEPT !.id = nextId]
    IN  /\ slots[s].pc = "create"
        /\ UNCHANGED <<server, inferenceUrl, variant, uniqueIndex, slugsDrawn, storage>>
        /\ IF ~Validates(doc) \/ ~dbOk \/ (uniqueIndex /\ DuplicateKey(models, doc))
           THEN /\ UNCHANGED <<models, nextId>>
                /\ Respond(s, [RegistryResp("upload", slots[s].req, 500, "Failed to upload model")
                                  EXCEPT !.row = doc,
                                         !.overwritten = slots[s].overwritten,
                                         !.duplicate = Validates(doc) /\ dbOk /\ uniqueIndex
                                                       /\ DuplicateKey(models, doc)])
           ELSE /\ models' = models \cup {doc}
                /\ nextId' = nextId + 1
                /\ Respond(s, [RegistryResp("upload", slots[s].req, 201, "")
                                  EXCEPT !.row = doc,
                                         !.overwritten = slots[s].overwritten,
                                         !.fields = {"id", "name", "slug", "apiKey", "inputType", "outputType"}])

\* A lookup that takes the row of any user.
FindOwnedByAnyone(ms, slug, user) == FindBySlug(ms, slug)

\* A lookup by slug alone: the userId filter is lost.
FindOwnedBySlugOnly(ms, slug, user) == {m \in ms : m.slug = slug}

\* Model.findOne({ slug, userId })
FindOwned(ms, slug, user) == {m \in ms : m.slug = slug /\ m.userId = user}

\* DELETE /api/models/:slug up to the await of the first deleteFromS3.
DeleteEntry(s, token, slug, dbOk) ==
    LET req == [token |-> token, slug |-> slug]
        auth == authenticate(token)
        found == FindOwned(models, slug, auth.user)
    IN  /\ slots[s].pc = "idle"
        /\ UNCHANGED <<server, inferenceUrl, variant, uniqueIndex, slugsDrawn, models, nextId>>
        /\ IF auth.status # 0
           THEN /\ Respond(s, RegistryResp("delete", req, auth.status, auth.error))
                /\ UNCHANGED storage
           ELSE IF ~dbOk
           THEN /\ Respond(s, RegistryResp("delete", req, 500, "Failed to delete model"))
                /\ UNCHANGED storage
           ELSE IF found = {}
           THEN /\ Respond(s, RegistryResp("delete", req, 404, "Model not found or unauthorized"))
                /\ UNCHANGED storage
           ELSE \E model \in found :
                  /\ storage' = deleteFromS3(storage, model.s3ModelKey)
                  /\ slots' = [slots EXCEPT ![s] =
                        [IdleSlot EXCEPT !.pc = IF model.s3ReadmeKey # NoStorageKey
                                                THEN "delReadme" ELSE "delRow",
                                         !.req = req, !.model = Found(model)]]

\* if (model.s3ReadmeKey) await deleteFromS3(model.s3ReadmeKey)
DeleteReadme(s) ==
    /\ slots[s].pc = "delReadme"
    /\ storage' = deleteFromS3(storage, slots[s].model.s3ReadmeKey)
    /\ slots' = [slots EXCEPT ![s] = [@ EXCEPT !.pc = "delRow"]]
    /\ UNCHANGED <<server, inferenceUrl, variant, uniqueIndex, slugsDrawn, models, nextId>>

\* A deleteOne that matches no row.
DeleteNothing(ms, id) == ms

\* Model.deleteOne({ _id })
DeleteById(ms, id) == {m \in ms : m.id # id}

\* await Model.deleteOne(...) and the answer.
DeleteRow(s, dbOk) ==
    /\ slots[s].pc = "delRow"
    /\ UNCHANGED <<server, inferenceUrl, variant, uniqueIndex, slugsDrawn, nextId, storage>>
    /\ IF ~dbOk
       THEN /\ UNCHANGED models
            /\ Respond(s, [RegistryResp("delete", slots[s].req, 500, "Failed to delete model")
                              EXCEPT !.row = slots[s].model])
       ELSE /\ models' = DeleteById(models, slots[s].model.id)
            /\ Respond(s, [RegistryResp("delete", slots[s].req, 200, "")
                              EXCEPT !.row = slots[s].model])

\* A fetch without .select("-s3ModelKey").
FetchFieldsUnselected(model, token) ==
    IF Verifies(token) /\ token.userId = model.userId THEN RowFields
    ELSE RowFields \ {"apiKey"}

\* A projection that keeps apiKey for every cookie that verifies.
FetchFieldsAnyUser(model, token) ==
    IF Verifies(token) THEN RowFields \ {"s3ModelKey"}
    ELSE RowFields \ {"s3ModelKey", "apiKey"}

\* The fields of the document GET /api/models/:slug answers with:
\* .select("-s3ModelKey"), and apiKey deleted unless the cookie verifies and
\* decodes to the owner.
FetchFields(model, token) ==
    LET selected == RowFields \ {"s3ModelKey"}
    IN  IF token.kind = "none" THEN selected \ {"apiKey"}
        ELSE IF ~Verifies(token) THEN selected \ {"apiKey"}
        ELSE IF token.userId # model.userId THEN selected \ {"apiKey"}
        ELSE selected

\* GET /api/models/:slug
GetBySlug(s, token, slug, dbOk) ==
    LET req == [token |-> token, slug |-> slug]
        found == FindBySlug(models, slug)
    IN  /\ slots[s].pc = "idle"
        /\ UNCHANGED <<server, inferenceUrl, variant, uniqueIndex, slugsDrawn, models, nextId, storage>>
        /\ IF ~dbOk
           THEN Respond(s, RegistryResp("get", req, 500, "Failed to fetch model"))
           ELSE IF found = {}
           THEN Respond(s, RegistryResp("get", req, 404, "Model not found"))
           ELSE \E model \in found :
                  Respond(s, [RegistryResp("get", req, 200, "")
                                 EXCEPT !.row = model, !.fields = FetchFields(model, token)])

\* A listing whose filter is lost: find({}) gives every row.
FindEvery(ms) == ms

\* Model.find({ isPublic: true })
FindPublic(ms) == {m \in ms : m.isPublic}

\* Model.find({ userId: req.user._id })
FindByUser(ms, user) == {m \in ms : m.userId = user}

\* .select("-apiKey -s3ModelKey -s3ReadmeKey")
ListFields == RowFields \ {"apiKey", "s3ModelKey", "s3ReadmeKey"}

\* GET /api/models: the public rows, without their keys.
GetList(s, dbOk) ==
    /\ slots[s].pc = "idle"
    /\ UNCHANGED <<server, inferenceUrl, variant, uniqueIndex, slugsDrawn, models, nextId, storage>>
    /\ IF ~dbOk
       THEN Respond(s, RegistryResp("list", NoReq, 500, "Failed to fetch models"))
       ELSE Respond(s, [RegistryResp("list", NoReq, 200, "")
                           EXCEPT !.rows = {m.id : m \in FindPublic(models)},
                                  !.fields = ListFields])

\* GET /api/models/mine: the rows of req.user.
GetMine(s, token, dbOk) ==
    LET req == [token |-> token]
        auth == authenticate(token)
    IN  /\ slots[s].pc = "idle"
        /\ UNCHANGED <<server, inferenceUrl, variant, uniqueIndex, slugsDrawn, models, nextId, storage>>
        /\ IF auth.status # 0
           THEN Respond(s, RegistryResp("mine", req, auth.status, auth.error))
           ELSE IF ~dbOk
           THEN Respond(s, RegistryResp("mine", req, 500, "Failed to fetch models"))
           ELSE Respond(s, [RegistryResp("mine", req, 200, "")
                               EXCEPT !.rows = {m.id : m \in FindByUser(models, auth.user)},
                                      !.fields = RowFields])

\* GET /api/auth/me: _id, name, email and avatar of req.user.
GetMe(s, token) ==
    LET req == [token |-> token]
        auth == authenticate(token)
    IN  /\ slots[s].pc = "idle"
        /\ UNCHANGED <<server, inferenceUrl, variant, uniqueIndex, slugsDrawn, models, nextId, storage>>
        /\ IF auth.status # 0
           THEN Respond(s, RegistryResp("me", req, auth.status, auth.error))
           ELSE Respond(s, [RegistryResp("me", req, 200, "")
                               EXCEPT !.fields = {"_id", "name", "email", "avatar"}])

(* --------------------------- specifications --------------------------- *)

\* A server process started on an empty database and an empty upload
\* directory, in any configuration.
Init ==
    /\ server = "listening"
    /\ inferenceUrl \in BOOLEAN
    /\ variant \in Variants
    /\ uniqueIndex \in BOOLEAN
    /\ models = {}
    /\ nextId = 1
    /\ storage = [k \in {} |-> NoFile]
    /\ slugsDrawn = [once |-> {}, again |-> {}]
    /\ slots = [s \in Slots |-> IdleSlot]

ValidTokens == {[kind |-> "valid", userId |-> u] : u \in Users}
Owner == {[kind |-> "valid", userId |-> "u1"]}
OneName == {<<"A", " ", "b">>}
OneFile == {[originalname |-> "m.h5", buffer |-> "w1"]}
\* What a multipart request may carry in each field: a file or none, a name or
\* none, an inputType or none.
NameOrNone == OneName \cup {<<>>}
FileOrNone == OneFile \cup {NoUpload}
ModelFileOrNone == ModelFiles \cup {NoUpload}
ReadmeOrNone == ReadmeFiles \cup {NoUpload}
InputTypeOrNone == InputTypeEnum \cup {Absent}
OneDraw == {<<<<"0a0a0a0a">>, "k1">>}
TwoDraws == {<<<<"0a0a0a0a">>, "k1">>, <<<<"1b1b1b1b">>, "k2">>}
AllDraws == HexSuffixes \X HexKeys
NumericBodies == {[EmptyBody EXCEPT !.inputs = "arr"]}

Predict(s, keys, bodies) ==
    /\ slots[s].pc = "idle"
    /\ \E slug \in Slugs, key \in keys, body \in bodies, dbOk \in BOOLEAN :
        PredictEntry(s, slug, key, body, dbOk)

Inference(s) ==
    \/ \E data \in SuccessBodies : InferenceOk(s, data)
    \/ \E status \in ErrorStatuses, data \in ErrorBodies : InferenceError(s, status, data)
    \/ InferenceNoAnswer(s)

Increment(s) == \E dbOk \in BOOLEAN : PredictInc(s, dbOk)

\* rnds: the pairs of random draws (slug suffix, key) an upload may make.
Upload(s, tokens, names, files, readmes, types, rnds) ==
    /\ slots[s].pc = "idle"
    /\ \E token \in tokens, name \in names, file \in files, readme \in readmes,
       inputType \in types, rnd \in rnds :
        UploadEntry(s, token, name, file, readme, inputType, rnd[1], rnd[2])

Create(s) == \E dbOk \in BOOLEAN : UploadCreate(s, dbOk)

Delete(s, tokens) ==
    /\ slots[s].pc = "idle"
    /\ \E token \in tokens, slug \in Slugs, dbOk \in BOOLEAN : DeleteEntry(s, token, slug, dbOk)

Remove(s) == \E dbOk \in BOOLEAN : DeleteRow(s, dbOk)

Fetch(s, tokens) ==
    /\ slots[s].pc = "idle"
    /\ \E token \in tokens, slug \in Slugs, dbOk \in BOOLEAN : GetBySlug(s, token, slug, dbOk)

List(s) == \E dbOk \in BOOLEAN : GetList(s, dbOk)

Mine(s, tokens) ==
    /\ slots[s].pc = "idle"
    /\ \E token \in tokens, dbOk \in BOOLEAN : GetMine(s, token, dbOk)

Me(s, tokens) ==
    /\ slots[s].pc = "idle"
    /\ \E token \in tokens : GetMe(s, token)

\* Predictions and deletions of one owner's models, interleaved at every await.
Next ==
    \E s \in Slots :
        \/ Predict(s, ApiKeys, NumericBodies)
        \/ Inference(s)
        \/ Increment(s)
        \/ Upload(s, Owner, OneName, OneFile, {NoUpload}, {Absent}, OneDraw)
        \/ Create(s)
        \/ Delete(s, Owner)
        \/ Remove(s)
        \/ Close(s)

Spec == Init /\ [][Next]_vars

\* One predict request at a time, of every shape, against a model of every
\* input type, up to the answer it gets or the call it forwards; what follows
\* a 2xx answer of the inference service is left to Spec.
NextPredict ==
    \/ Predict(1, KeyHeaders, Bodies)
    \/ \E status \in ErrorStatuses, data \in ErrorBodies : InferenceError(1, status, data)
    \/ InferenceNoAnswer(1)
    \/ Upload(1, Owner, OneName, OneFile, {NoUpload}, InputTypeOrNone, OneDraw)
    \/ Create(1)
    \/ Close(1)

\* The unique indexes decide nothing in a prediction: they are taken as built.
InitPredict == Init /\ uniqueIndex

SpecPredict == InitPredict /\ [][NextPredict]_vars

\* The registry routes read neither the predict router nor its URL.
InitRegistry == Init /\ variant = "main" /\ inferenceUrl

\* Fetches by every caller of the models two users upload, one request at a time.
NextFetch ==
    \/ Upload(1, ValidTokens, OneName, OneFile, ReadmeOrNone, {Absent}, TwoDraws)
    \/ UploadReadme(1)
    \/ Create(1)
    \/ Fetch(1, Tokens)
    \/ Close(1)

SpecFetch == InitRegistry /\ [][NextFetch]_vars

\* Deletions, uploads and fetches interleaved at every await.
NextDelete ==
    \E s \in Slots :
        \/ Upload(s, Owner, OneName, OneFile, ReadmeOrNone, {Absent}, TwoDraws)
        \/ UploadReadme(s)
        \/ Create(s)
        \/ Delete(s, ValidTokens)
        \/ DeleteReadme(s)
        \/ Remove(s)
        \/ Fetch(s, {NoToken})
        \/ Close(s)

SpecDelete == InitRegistry /\ [][NextDelete]_vars

\* Uploads interleaved at every await: names that slugify alike, every pair
\* of random draws, with and without a model file.
NextUploads ==
    \E s \in Slots :
        \/ Upload(s, Owner, Names, FileOrNone, {NoUpload}, {Absent}, AllDraws)
        \/ Create(s)
        \/ Close(s)

SpecUploads == InitRegistry /\ [][NextUploads]_vars

\* Uploads interleaved at every await, complete or not: with and without a
\* name, a model file (of either content) and a README.
NextIncomplete ==
    \E s \in Slots :
        \/ Upload(s, Owner, NameOrNone, ModelFileOrNone, ReadmeOrNone, {Absent}, TwoDraws)
        \/ UploadReadme(s)
        \/ Create(s)
        \/ Close(s)

SpecIncomplete == InitRegistry /\ [][NextIncomplete]_vars

\* As many predict requests as there are connections, interleaved at every
\* await, each forward answered with 2xx and each update reaching the
\* database; the connection of a request answered 200 stays open.
Succeeded(s) == slots[s].pc = "done" /\ slots[s].resp.kind = "predict"
                    /\ slots[s].resp.status = 200

NextCount ==
    \E s \in Slots :
        \/ Upload(s, Owner, OneName, OneFile, {NoUpload}, {Absent}, TwoDraws)
        \/ Create(s)
        \/ Predict(s, ApiKeys, NumericBodies)
        \/ \E data \in SuccessBodies : InferenceOk(s, data)
        \/ PredictInc(s, TRUE)
        \/ ~Succeeded(s) /\ Close(s)

InitCount == Init /\ inferenceUrl /\ uniqueIndex

SpecCount == InitCount /\ [][NextCount]_vars

\* The routes behind authenticate, one request at a time, with every cookie.
NextAuth ==
    \/ Upload(1, Tokens, OneName, OneFile, ReadmeOrNone, {Absent}, TwoDraws)
    \/ UploadReadme(1)
    \/ Create(1)
    \/ Delete(1, Tokens)
    \/ DeleteReadme(1)
    \/ Remove(1)
    \/ Mine(1, Tokens)
    \/ Me(1, Tokens)
    \/ Close(1)

SpecAuth == InitRegistry /\ [][NextAuth]_vars

\* Predictions interleaved at every await, where every await comes back: the
\* forward is answered or hits its timeout, and the update returns or throws.
NextLive ==
    \E s \in Slots :
        \/ Upload(s, Owner, OneName, OneFile, {NoUpload}, {Absent}, OneDraw)
        \/ Create(s)
        \/ Predict(s, ApiKeys, NumericBodies)
        \/ Inference(s)
        \/ Increment(s)
        \/ Close(s)

AwaitsReturn == \A s \in Slots : WF_vars(Inference(s)) /\ WF_vars(Increment(s))

SpecLive == Init /\ [][NextLive]_vars /\ AwaitsReturn

\* connectDB() settles: mongoose.connect resolved, or connectDB's own catch
\* block (MONGODB_URI missing, connection refused) ran process.exit(1).
ConnectDB(ok) ==
    /\ server = "starting"
    /\ server' = IF ok THEN "connected" ELSE "exited"
    /\ UNCHANGED <<inferenceUrl, variant, uniqueIndex, slugsDrawn, models, nextId, storage, slots>>

\* .then(() => app.listen(PORT, ...))
Listen ==
    /\ server = "connected"
    /\ server' = "listening"
    /\ UNCHANGED <<inferenceUrl, variant, uniqueIndex, slugsDrawn, models, nextId, storage, slots>>

Connect == \E ok \in BOOLEAN : ConnectDB(ok)

\* Requests reach the routes once the process listens.
Serving == server = "listening"

\* node server.js: the process from its start, then requests.
NextStartup ==
    \/ Connect
    \/ Listen
    \/ Serving /\ Predict(1, KeyHeaders, Bodies)
    \/ Serving /\ List(1)
    \/ Serving /\ Close(1)

InitStartup ==
    /\ server = "starting"
    /\ inferenceUrl \in BOOLEAN
    /\ variant \in Variants
    /\ uniqueIndex = FALSE
    /\ models = {}
    /\ nextId = 1
    /\ storage = [k \in {} |-> NoFile]
    /\ slugsDrawn = [once |-> {}, again |-> {}]
    /\ slots = [s \in Slots |-> IdleSlot]

\* The promise of connectDB settles and a listen call completes.
StartupProgress == WF_vars(Connect) /\ WF_vars(Listen)

SpecStartup == InitStartup /\ [][NextStartup]_vars /\ StartupProgress

\* A row as an earlier run of the server left it in the database.  No route
\* writes isPublic (the schema default is true): a private row is one whose
\* flag was set in the database itself.
StoredRow(id, user, public) ==
    LET i == ((id - 1) % 4) + 1
        slug == generateSlug(<<"A", " ", "b">>,
                             <<<<"0a0a0a0a">>, <<"1b1b1b1b">>, <<"2c2c2c2c">>, <<"3d3d3d3d">>>>[i])
    IN  [NoRow EXCEPT !.id = id, !.userId = user, !.name = <<"A", " ", "b">>,
                      !.slug = slug,
                      !.apiKey = generateApiKey(<<"k1", "k2", "k3", "k4">>[i]),
                      !.s3ModelKey = <<"models", slug, "m.h5">>,
                      !.inputType = "numeric", !.outputType = "classification",
                      !.isPublic = public]

\* The databases of n rows, every row of either user, public or private.
RECURSIVE Databases(_)
Databases(n) ==
    IF n = 0 THEN {{}}
    ELSE {db \cup {StoredRow(n, user, public)} :
            db \in Databases(n - 1), user \in Users, public \in BOOLEAN}

\* The server started on a database that holds rows already.
InitList ==
    /\ server = "listening"
    /\ inferenceUrl = TRUE
    /\ variant = "main"
    /\ uniqueIndex = TRUE
    /\ \E n \in 0..MaxModels : models \in Databases(n) /\ nextId = n + 1
    /\ storage = [k \in {m.s3ModelKey : m \in models} |-> "w1"]
    /\ slugsDrawn = [once |-> {m.slug : m \in models}, again |-> {}]
    /\ slots = [s \in Slots |-> IdleSlot]

\* The two listings, one request at a time, with every cookie.
NextList ==
    \/ List(1)
    \/ Mine(1, Tokens)
    \/ Close(1)

SpecList == InitList /\ [][NextList]_vars

(* ------------------------------- claims ------------------------------- *)

Answered(s, kind) == slots[s].pc = "done" /\ slots[s].resp.kind = kind

\* The required input of each inputType is missing from the body (the table
\* of the predict proxy: image | file | image_base64, text, texts,
\* csv | file | csv_data, data, inputs).
LacksRequired(inputType, body) ==
    CASE inputType = "image" ->
            body.image = NoFile /\ body.file = NoFile /\ body.image_base64 = Absent
      [] inputType = "text" -> body.text = Absent
      [] inputType = "multi_text" -> body.texts = Absent
      [] inputType = "csv" ->
            body.csv = NoFile /\ body.file = NoFile /\ body.csv_data = Absent
      [] inputType = "json" -> body.data = Absent
      [] OTHER -> body.inputs = Absent

\* C1: a predict request that found its model and carries the model's API key
\* but lacks the required input of the model's inputType is answered 400; it
\* is never forwarded to the inference service and increments no usageCount.
C1_MissingInputIs400 ==
    \A s \in Slots :
        /\ Answered(s, "predict") /\ slots[s].resp.row # NoRow
             /\ slots[s].resp.req.key = slots[s].resp.row.apiKey
             /\ LacksRequired(slots[s].resp.row.inputType, slots[s].resp.req.body)
           => /\ slots[s].resp.status = 400
              /\ ~slots[s].resp.sent
              /\ slots[s].resp.incs = 0
        /\ slots[s].pc \in {"forwarded", "inc"}
           => ~LacksRequired(slots[s].model.inputType, slots[s].req.body)

\* C1 witness: a multi_text model's request with the right key, without
\* "texts" but with a "text" field, has been answered 400.
C1_Witness ==
    \E s \in Slots :
        /\ Answered(s, "predict") /\ slots[s].resp.status = 400
        /\ slots[s].resp.row.inputType = "multi_text"
        /\ slots[s].resp.req.key = slots[s].resp.row.apiKey
        /\ LacksRequired("multi_text", slots[s].resp.req.body)
        /\ slots[s].resp.req.body.text # Absent

\* C2: a predict request that found its model and whose X-API-Key header is
\* not the model's apiKey (a missing header too) is answered 403 whatever its
\* body; it is never forwarded and increments no usageCount.
C2_WrongKeyIs403 ==
    \A s \in Slots :
        /\ Answered(s, "predict") /\ slots[s].resp.row # NoRow
             /\ slots[s].resp.req.key # slots[s].resp.row.apiKey
           => /\ slots[s].resp.status = 403
              /\ ~slots[s].resp.sent
              /\ slots[s].resp.incs = 0
        /\ slots[s].pc \in {"forwarded", "inc"}
           => slots[s].req.key = slots[s].model.apiKey

\* C2 witness: a request without the header and with a body that is valid
\* for the model has been answered 403.
C2_Witness ==
    \E s \in Slots :
        /\ Answered(s, "predict") /\ slots[s].resp.status = 403
        /\ slots[s].resp.req.key = NoKey
        /\ BuildPayload(variant, slots[s].resp.row, slots[s].resp.req.body).ok

\* C3: a predict request for a slug without a Model row is answered 404
\* whatever its key and body: never 400, never 403, never forwarded.  (500
\* instead only where the router has no inference URL or the lookup throws.)
C3_UnknownSlugIs404 ==
    \A s \in Slots :
        /\ Answered(s, "predict")
             /\ (\A m \in models : m.slug # slots[s].resp.req.slug)
           => /\ ~slots[s].resp.sent
              /\ \/ slots[s].resp.status = 404
                 \/ /\ slots[s].resp.status = 500
                    /\ slots[s].resp.error = "Inference service not configured"
                    /\ variant = "main" /\ ~inferenceUrl
                 \/ /\ slots[s].resp.status = 500
                    /\ slots[s].resp.error = "Prediction failed"
        /\ slots[s].pc \in {"forwarded", "inc"}
           => (\E m \in models : m.slug = slots[s].req.slug)

\* C3 witness: with a model in the registry, a request for another slug with
\* a missing key and an empty body has been answered 404.
C3_Witness ==
    \E s \in Slots :
        /\ Answered(s, "predict") /\ slots[s].resp.status = 404
        /\ models # {}
        /\ slots[s].resp.req.key = NoKey
        /\ slots[s].resp.req.body = EmptyBody

\* The slots whose predict request is answered 200 by this step.
Succeeds(s) ==
    /\ slots[s].pc = "inc"
    /\ slots'[s].pc = "done"
    /\ slots'[s].resp.status = 200

C5_DownstreamFieldsKept ==
    \A s \in Slots :
        Answered(s, "predict") /\ slots[s].resp.status = 200
        => /\ DOMAIN slots[s].resp.body = DOMAIN slots[s].resp.data \cup {"model"}
           /\ \A k \in DOMAIN slots[s].resp.data :
                  slots[s].resp.body[k] = slots[s].resp.data[k]
           /\ "model" \notin DOMAIN slots[s].resp.data
                  => slots[s].resp.body["model"] = slots[s].resp.row.name

\* C5 witness: a 200 answer to a downstream object that has a "model" field
\* different from the stored name.
C5_Witness ==
    \E s \in Slots :
        /\ Answered(s, "predict") /\ slots[s].resp.status = 200
        /\ "model" \in DOMAIN slots[s].resp.data
        /\ slots[s].resp.data["model"] # slots[s].resp.row.name
        /\ slots[s].resp.body["prediction"] = slots[s].resp.data["prediction"]

\* C5 as stated: the body of a 200 predict answer has "model" equal to the
\* stored model name and every downstream field with its downstream value.
C5_ModelIsStoredName ==
    \A s \in Slots :
        Answered(s, "predict") /\ slots[s].resp.status = 200
        => /\ slots[s].resp.body["model"] = slots[s].resp.row.name
           /\ \A k \in DOMAIN slots[s].resp.data :
                  slots[s].resp.body[k] = slots[s].resp.data[k]

\* C6: when the inference service answers the forwarded call with HTTP 500,
\* the predict request is answered 502 with the downstream body under
\* "details", and the request raises no usageCount.
C6_Downstream500Is502 ==
    \A s \in Slots :
        Answered(s, "predict") /\ slots[s].resp.downstream = 500
        => /\ slots[s].resp.status = 502
           /\ slots[s].resp.details = slots[s].resp.errorData
           /\ slots[s].resp.incs = 0

\* C7: the answer of GET /api/models/:slug has the apiKey field only when the
\* token cookie verifies and is signed for the user who owns the row; without
\* a cookie, with an invalid or expired token, or with another user's valid
\* token the field is absent.
C7_ApiKeyOnlyToOwner ==
    \A s \in Slots :
        Answered(s, "get") /\ slots[s].resp.status = 200
        => /\ "apiKey" \in slots[s].resp.fields
                => /\ slots[s].resp.req.token.kind = "valid"
                   /\ slots[s].resp.req.token.userId = slots[s].resp.row.userId
           /\ slots[s].resp.req.token.kind \in {"none", "invalid", "expired"}
                => "apiKey" \notin slots[s].resp.fields
           /\ slots[s].resp.req.token.userId # slots[s].resp.row.userId
                => "apiKey" \notin slots[s].resp.fields

\* C7 witness: another user's valid token fetched a model and the answer has
\* the model's public fields and no apiKey.
C7_Witness ==
    \E s \in Slots :
        /\ Answered(s, "get") /\ slots[s].resp.status = 200
        /\ slots[s].resp.req.token.kind = "valid"
        /\ slots[s].resp.req.token.userId \in Users
        /\ slots[s].resp.req.token.userId # slots[s].resp.row.userId
        /\ "apiKey" \notin slots[s].resp.fields
        /\ "slug" \in slots[s].resp.fields

\* C8, what the delete handler does keep: once the owner's DELETE
\* /api/models/:slug is answered 200 the row it deleted is absent for good;
\* and as long as generateSlug has returned that slug for no other upload,
\* the weights object and the README object are absent and a GET for the
\* slug finds no row (404).
C8_DeletedIsGoneUnlessSlugReused ==
    \A s \in Slots :
        Answered(s, "delete") /\ slots[s].resp.status = 200
        => /\ \A m \in models : m.id # slots[s].resp.row.id
           /\ slots[s].resp.row.slug \notin slugsDrawn.again
                => /\ slots[s].resp.row.s3ModelKey \notin DOMAIN storage
                   /\ slots[s].resp.row.s3ReadmeKey \notin DOMAIN storage
                   /\ \A m \in models : m.slug # slots[s].resp.row.slug

\* C8 witness of that part: a model with a README was deleted by its owner, its slug was
\* generated once only, and another model is still in the registry with its
\* weights object in storage.
C8_Witness ==
    \E s \in Slots :
        /\ Answered(s, "delete") /\ slots[s].resp.status = 200
        /\ slots[s].resp.row.s3ReadmeKey # NoStorageKey
        /\ slots[s].resp.row.slug \notin slugsDrawn.again
        /\ \E m \in models : m.s3ModelKey \in DOMAIN storage

\* C8 as stated: once the owner's DELETE /api/models/:slug is answered 200,
\* the Model row, its weights object and its README object are absent, and a
\* GET for that slug finds no row (404), from then on.
C8_DeletedIsGone ==
    \A s \in Slots :
        Answered(s, "delete") /\ slots[s].resp.status = 200
        => /\ \A m \in models : m.id # slots[s].resp.row.id
           /\ slots[s].resp.row.s3ModelKey \notin DOMAIN storage
           /\ slots[s].resp.row.s3ReadmeKey \notin DOMAIN storage
           /\ \A m \in models : m.slug # slots[s].resp.row.slug

\* An upload request that passed authenticate.
AnsweredUpload(s) ==
    /\ Answered(s, "upload")
    /\ authenticate(slots[s].resp.req.token).status = 0

C10_SlugAndKeyUnique ==
    \A m \in models : \A n \in models :
        m.id # n.id => m.slug # n.slug /\ m.apiKey # n.apiKey

\* C11: a usageCount is never negative and never decreases; a row starts at
\* 0, and a step changes a row's count only when it is the step that answers
\* 200 a predict request for that row whose forward the inference service
\* answered with 2xx.  Steps of requests answered 400, 403, 404, 500 or 502
\* and steps of the registry routes leave every count as it is.
C11_UsageGrowsOnlyOnSuccess ==
    [][\A n \in models' :
          /\ n.usageCount >= 0
          /\ (\A m \in models : m.id # n.id) => n.usageCount = 0
          /\ \A m \in models :
                m.id = n.id
                => /\ n.usageCount >= m.usageCount
                   /\ n.usageCount # m.usageCount
                         => \E s \in Slots :
                               /\ slots[s].pc = "inc"
                               /\ slots[s].model.id = m.id
                               /\ slots'[s].resp.kind = "predict"
                               /\ slots'[s].resp.status = 200
                               /\ slots'[s].resp.downstream = 200]_vars

\* C11 witness: a row's count is 1 after one request was answered 200, while
\* another request for the same row was answered 502.
C11_Witness ==
    \E s \in Slots : \E t \in Slots :
        /\ Answered(s, "predict") /\ slots[s].resp.status = 200
        /\ Answered(t, "predict") /\ slots[t].resp.status = 502
        /\ slots[s].resp.row.id = slots[t].resp.row.id
        /\ \E m \in models : m.id = slots[s].resp.row.id /\ m.usageCount = 1

\* C12: in every reachable state the s3ModelKey of each Model row names an
\* object that exists in storage.
C12_ModelKeyInStorage ==
    \A m \in models : m.s3ModelKey \in DOMAIN storage

\* C13: when k predict requests for one model run concurrently, in any
\* interleaving, and all k forwards succeed, the model's usageCount ends
\* exactly k higher than it started: at every moment each row's count is the
\* number of requests for it that were answered 200.
C13_NoLostUpdate ==
    \A m \in models :
        m.usageCount = Cardinality({s \in Slots : Succeeded(s) /\ slots[s].resp.row.id = m.id})

\* C13 witness: every connection carried a request for the same model, all
\* were answered 200, and the model's count equals their number.
C13_Witness ==
    \E m \in models :
        /\ \A s \in Slots : Succeeded(s) /\ slots[s].resp.row.id = m.id
        /\ m.usageCount = MaxSlots

\* C14: a prediction has no partial-success outcome.  Every answered predict
\* request is either a success (the inference service answered the forward
\* with 2xx, the counter was raised by one, the answer is 200 with the full
\* downstream body) or a failure (an error status, no 2xx answer of the
\* inference service, no counter raised).
C14_NoPartialSuccess ==
    \A s \in Slots :
        Answered(s, "predict")
        => \/ /\ slots[s].resp.status = 200
              /\ slots[s].resp.downstream = 200
              /\ slots[s].resp.incs = 1
              /\ \A k \in DOMAIN slots[s].resp.data :
                     slots[s].resp.body[k] = slots[s].resp.data[k]
           \/ /\ slots[s].resp.status \in {400, 403, 404, 500, 502}
              /\ slots[s].resp.downstream # 200
              /\ slots[s].resp.incs = 0

\* The DELETE request slot s takes up in this step, where it takes one up.
DeleteStarts(s) ==
    /\ slots[s].pc = "idle"
    /\ \/ slots'[s].pc = "done" /\ slots'[s].resp.kind = "delete"
       \/ slots'[s].pc \in {"delReadme", "delRow"}

StartedRequest(s) == IF slots'[s].pc = "done" THEN slots'[s].resp.req ELSE slots'[s].req

\* C15: a DELETE /api/models/:slug by an authenticated user who owns no row
\* with that slug changes nothing: the step that handles it leaves the
\* registry and the storage as they are and ends the request at once, and no
\* request is ever past the lookup with a row of another user.
C15_NonOwnerDeleteChangesNothing ==
    [][\A s \in Slots :
          /\ DeleteStarts(s)
               /\ authenticate(StartedRequest(s).token).status = 0
               /\ (\A m \in models :
                      m.slug = StartedRequest(s).slug
                      => m.userId # StartedRequest(s).token.userId)
             => /\ models' = models
                /\ storage' = storage
                /\ slots'[s].pc = "done"
          /\ slots'[s].pc \in {"delReadme", "delRow"}
             => slots'[s].model.userId = slots'[s].req.token.userId]_vars

\* C15 witness: another user's DELETE of an existing model has been answered
\* and the model's row and weights object are there.
C15_Witness ==
    \E s \in Slots : \E m \in models :
        /\ Answered(s, "delete")
        /\ slots[s].resp.req.token.kind = "valid"
        /\ slots[s].resp.req.token.userId \in Users
        /\ slots[s].resp.req.slug = m.slug
        /\ slots[s].resp.req.token.userId # m.userId
        /\ m.s3ModelKey \in DOMAIN storage
        /\ m.s3ReadmeKey \in DOMAIN storage

\* A DELETE by an authenticated user for a slug that has a row, none of them
\* the user's own, starts in this step on slot s.
NonOwnerDeleteStarts(s) ==
    /\ DeleteStarts(s)
    /\ authenticate(StartedRequest(s).token).status = 0
    /\ \E m \in models : m.slug = StartedRequest(s).slug
    /\ \A m \in models :
          m.slug = StartedRequest(s).slug => m.userId # StartedRequest(s).token.userId

\* C16 (as amended): a DELETE /api/models/:slug of an existing model by an
\* authenticated user who is not its owner is answered 404 "Model not found
\* or unauthorized", the answer a slug without a row gets (500 where the
\* lookup throws).
C16_NonOwnerDeleteIs404 ==
    [][\A s \in Slots :
          NonOwnerDeleteStarts(s)
          => /\ slots'[s].pc = "done"
             /\ \/ /\ slots'[s].resp.status = 404
                   /\ slots'[s].resp.error = "Model not found or unauthorized"
                \/ /\ slots'[s].resp.status = 500
                   /\ slots'[s].resp.error = "Failed to delete model"]_vars

\* C16 witness: user u2's DELETE of a model of user u1 that is in the
\* registry has been answered 404.
C16_Witness ==
    \E s \in Slots : \E m \in models :
        /\ Answered(s, "delete") /\ slots[s].resp.status = 404
        /\ slots[s].resp.req.token = [kind |-> "valid", userId |-> "u2"]
        /\ slots[s].resp.req.slug = m.slug
        /\ m.userId = "u1"

\* C16 as stated: such a request is answered with an authorization error
\* status, 401 or 403 (500 where the lookup throws).
C16_NonOwnerDeleteIs401Or403 ==
    [][\A s \in Slots :
          NonOwnerDeleteStarts(s)
          => /\ slots'[s].pc = "done"
             /\ \/ slots'[s].resp.status \in {401, 403}
                \/ /\ slots'[s].resp.status = 500
                   /\ slots'[s].resp.error = "Failed to delete model"]_vars

\* The request of an auth-required route that slot s takes up in this step.
AuthRouteStarts(s) ==
    /\ slots[s].pc = "idle"
    /\ \/ slots'[s].pc = "done" /\ slots'[s].resp.kind \in {"upload", "delete", "mine", "me"}
       \/ slots'[s].pc \in {"readme", "create", "delReadme", "delRow"}

\* A token cookie that is missing, has a bad signature, is expired, or names
\* a user that does not exist.
BadToken(token) ==
    \/ token.kind \in {"none", "invalid", "expired"}
    \/ token.userId \notin Users

Unreachable(s) ==
    /\ Answered(s, "predict")
    /\ slots[s].resp.sent
    /\ slots[s].resp.downstream = 0

\* C18 (as amended): when the forward fails without any HTTP response the
\* predict request is answered 500 "Prediction failed" without a details
\* field, and raises no usageCount.
C18_UnreachableIs500 ==
    \A s \in Slots :
        Unreachable(s)
        => /\ slots[s].resp.status = 500
           /\ slots[s].resp.error = "Prediction failed"
           /\ slots[s].resp.details = Absent
           /\ slots[s].resp.incs = 0

\* C18 witness: with the service URL configured, a csv request with the right
\* key and a csv file was forwarded, got no answer, and has been answered 500.
C18_Witness ==
    \E s \in Slots :
        /\ inferenceUrl
        /\ Unreachable(s)
        /\ slots[s].resp.status = 500
        /\ slots[s].resp.row.inputType = "csv"
        /\ slots[s].resp.req.key = slots[s].resp.row.apiKey
        /\ slots[s].resp.req.body.csv # NoFile

\* C18 as stated: when the forward fails without any HTTP response the
\* predict request is answered 502.
C18_UnreachableIs502 ==
    \A s \in Slots : Unreachable(s) => slots[s].resp.status = 502

\* C19: when INFERENCE_SERVICE_URL is not configured every predict request
\* is answered 500 at entry: before the model lookup (no row was read), the
\* API-key check and the input validation, with no outbound call and no
\* usageCount change; no request is ever waiting for the inference service.
C19_UnconfiguredIs500AtEntry ==
    ~inferenceUrl =>
        \A s \in Slots :
            /\ slots[s].pc # "forwarded"
            /\ Answered(s, "predict")
               => /\ slots[s].resp.status = 500
                  /\ slots[s].resp.error = "Inference service not configured"
                  /\ slots[s].resp.row = NoRow
                  /\ ~slots[s].resp.sent
                  /\ slots[s].resp.incs = 0

\* C19, what holds: the router of server/routes/predict.js, which has the
\* configuration check, answers as C19 says.
C19_MainUnconfiguredIs500AtEntry ==
    variant = "main" => C19_UnconfiguredIs500AtEntry

\* The only input of the body is a file in the generic multipart field.
OnlyGenericFile(body) ==
    /\ body.file # NoFile
    /\ body = [EmptyBody EXCEPT !.file = body.file]

\* C20: a correctly keyed request to an image model whose only input is a
\* file in the generic field "file" is not turned away by the input check,
\* and is forwarded with image_base64 = the base64 of that file; likewise a
\* csv model takes the file as csv_data.
C20_GenericFileAccepted ==
    \A s \in Slots :
        /\ \A t \in {"image", "csv"} :
              /\ Answered(s, "predict")
              /\ slots[s].resp.row.inputType = t
              /\ slots[s].resp.req.key = slots[s].resp.row.apiKey
              /\ OnlyGenericFile(slots[s].resp.req.body)
              => slots[s].resp.sent
        /\ slots[s].pc = "forwarded" /\ OnlyGenericFile(slots[s].req.body)
           => /\ slots[s].model.inputType = "image"
                 => slots[s].payload.image_base64 = Base64(slots[s].req.body.file)
              /\ slots[s].model.inputType = "csv"
                 => slots[s].payload.csv_data = Utf8(slots[s].req.body.file)

\* C20, what holds: the richer router reads the generic field.
C20_RicherGenericFileAccepted ==
    variant = "richer" => C20_GenericFileAccepted

\* The JSON field a json or numeric model requires.
RequiredJsonField(inputType) == IF inputType = "json" THEN "data" ELSE "inputs"

\* A predict request for a json or numeric model, with the model's key, has
\* been answered past the lookup.
AnsweredJsonOrNumeric(s) ==
    /\ Answered(s, "predict")
    /\ slots[s].resp.row.inputType \in {"json", "numeric"}
    /\ slots[s].resp.req.key = slots[s].resp.row.apiKey

\* C21: for inputType json and numeric a correctly keyed request is answered
\* 400 exactly when the required field (data, inputs) is absent from the body;
\* a request in which the field is present, whatever its JSON value (0, false,
\* "", []), is forwarded.
C21_RejectedExactlyWhenAbsent ==
    \A s \in Slots :
        AnsweredJsonOrNumeric(s) =>
            LET present == slots[s].resp.req.body[RequiredJsonField(slots[s].resp.row.inputType)] # Absent
            IN  /\ ~present => slots[s].resp.status = 400 /\ ~slots[s].resp.sent
                /\ present => slots[s].resp.sent /\ slots[s].resp.status # 400

\* C21, what holds: the request is answered 400 exactly when the field is
\* absent or its value is falsy in JavaScript (0, false, ""); a truthy value,
\* the empty array included, is forwarded.
C21_RejectedExactlyWhenFalsy ==
    \A s \in Slots :
        AnsweredJsonOrNumeric(s) =>
            LET v == slots[s].resp.req.body[RequiredJsonField(slots[s].resp.row.inputType)]
            IN  /\ ~Truthy(v) => slots[s].resp.status = 400 /\ ~slots[s].resp.sent
                /\ Truthy(v) => slots[s].resp.sent /\ slots[s].resp.status # 400

\* The typed payload field of each inputType; the switch's default case
\* (numeric) for every other value.
TypedFieldOf(inputType) ==
    CASE inputType = "image" -> "image_base64"
      [] inputType = "text" -> "text"
      [] inputType = "multi_text" -> "texts"
      [] inputType = "csv" -> "csv_data"
      [] inputType = "json" -> "json_data"
      [] OTHER -> "inputs"

\* C22: every payload on its way to the inference service carries the
\* input_type and output_type of the stored model and exactly one typed input
\* field, the one of the model's inputType; a model with none of the five
\* named inputTypes is sent with "inputs".
C22_OneTypedField ==
    \A s \in Slots :
        slots[s].pc = "forwarded" =>
            /\ \A m \in models :
                  m.id = slots[s].model.id
                  => /\ slots[s].payload.input_type = m.inputType
                     /\ slots[s].payload.output_type = m.outputType
                     /\ {f \in TypedFields : slots[s].payload[f] # Absent}
                            = {TypedFieldOf(m.inputType)}
            /\ \E m \in models : m.id = slots[s].model.id

\* C22 witness: a request for a numeric model (the switch's default case) is
\* being forwarded with "inputs" as its only typed field.
C22_Witness ==
    \E s \in Slots :
        /\ slots[s].pc = "forwarded"
        /\ slots[s].model.inputType = "numeric"
        /\ slots[s].payload.input_type = "numeric"
        /\ {f \in TypedFields : slots[s].payload[f] # Absent} = {"inputs"}

\* Slot s takes a step of the predict handler: it accepts a predict request,
\* or goes on from the await of the forward or of the increment.
PredictStep(s) ==
    /\ slots'[s] # slots[s]
    /\ \/ slots[s].pc \in {"forwarded", "inc"}
       \/ /\ slots[s].pc = "idle"
          /\ \/ slots'[s].pc = "forwarded"
             \/ slots'[s].pc = "done" /\ slots'[s].resp.kind = "predict"

\* C23: a Model row that exists before and after a step has the same slug,
\* apiKey, owner, storage keys, inputType and outputType (every field but
\* usageCount); a step of a predict request creates and deletes no row,
\* changes no row but the one it addresses, and no storage object.
C23_RowsChangeOnlyInUsage ==
    [][/\ \A m \in models : \A n \in models' :
             m.id = n.id => [n EXCEPT !.usageCount = m.usageCount] = m
       /\ \A s \in Slots :
             PredictStep(s)
             => /\ storage' = storage
                /\ {n.id : n \in models'} = {m.id : m \in models}
                /\ \A m \in models : m.id # slots[s].model.id => m \in models']_vars

\* C23 witness: of two rows, the one a predict request addressed has been
\* counted and the other has not.
C23_Witness ==
    \E s \in Slots :
        /\ Answered(s, "predict") /\ slots[s].resp.status = 200
        /\ \E m \in models, n \in models :
              /\ m.id = slots[s].resp.row.id /\ m.usageCount = 1
              /\ n.id # m.id /\ n.usageCount = 0

\* C24: a listing never contains a model that is neither public nor the
\* caller's: GET /api/models answers with public rows only, without apiKey
\* and storage keys; GET /api/models/mine answers with rows of the
\* authenticated caller only.
C24_ListingsShowPublicOrOwn ==
    \A s \in Slots :
        /\ Answered(s, "list")
           => /\ \A id \in slots[s].resp.rows : \E m \in models : m.id = id /\ m.isPublic
              /\ slots[s].resp.fields \cap {"apiKey", "s3ModelKey", "s3ReadmeKey"} = {}
        /\ Answered(s, "mine")
           => \A id \in slots[s].resp.rows :
                 /\ Verifies(slots[s].resp.req.token)
                 /\ \E m \in models : m.id = id /\ m.userId = slots[s].resp.req.token.userId

\* C24 witness: the database holds a private row and a public row of two
\* users, and both listings have been answered with a row.
C24_Witness ==
    /\ \E m \in models, n \in models :
          ~m.isPublic /\ n.isPublic /\ m.userId # n.userId
    /\ \E s \in Slots :
          /\ slots[s].pc = "done"
          /\ slots[s].resp.kind \in {"list", "mine"}
          /\ slots[s].resp.status = 200
          /\ slots[s].resp.rows # {}
          /\ Cardinality(slots[s].resp.rows) < Cardinality(models)

\* C25: every predict request gets exactly one response and is never
\* retried.  A request waiting for the forward or for the update is answered
\* in the end; a slot makes its outbound call only as the first step after
\* the request came in (never again after an error), an answer once given is
\* not replaced by another, and a forward that got no answer (timeout) is
\* answered 500 or 502.
C25_PredictTerminatesOnce ==
    /\ \A s \in Slots :
          slots[s].pc \in {"forwarded", "inc"}
             ~> (slots[s].pc = "done" /\ slots[s].resp.kind = "predict")
    /\ [][\A s \in Slots :
             /\ slots'[s].pc = "forwarded" /\ slots'[s] # slots[s] => slots[s].pc = "idle"
             /\ slots[s].pc = "done" => slots'[s] \in {slots[s], IdleSlot}]_vars
    /\ [](\A s \in Slots :
             Unreachable(s) => slots[s].resp.status \in {500, 502})

\* C25 witness: of two predict requests in flight together, one has been
\* answered 200 and the other, whose forward got no answer, 500.
C25_Witness ==
    \E s \in Slots, t \in Slots :
        /\ Answered(s, "predict") /\ slots[s].resp.status = 200
        /\ Unreachable(t) /\ slots[t].resp.status = 500

\* Slot s takes in a POST /api/models request: it answers it at once or goes
\* on to the writes.
UploadStarts(s) ==
    /\ slots[s].pc = "idle"
    /\ \/ slots'[s].pc \in {"readme", "create"}
       \/ slots'[s].pc = "done" /\ slots'[s].resp.kind = "upload"

\* C26: POST /api/models by an authenticated user without a name or without
\* a model file is answered 400, and the step that handles it writes no
\* storage object and creates no Model row.
C26_IncompleteUploadIs400 ==
    [][\A s \in Slots :
          LET req == IF slots'[s].pc = "done" THEN slots'[s].resp.req ELSE slots'[s].req
          IN  /\ UploadStarts(s)
              /\ authenticate(req.token).status = 0
              /\ req.name = <<>> \/ req.file = NoUpload
              => /\ slots'[s].pc = "done"
                 /\ slots'[s].resp.status = 400
                 /\ storage' = storage
                 /\ models' = models
                 /\ nextId' = nextId]_vars

\* C26 witness: an upload with a model file and no name has been answered 400
\* while another upload is past validation.
C26_Witness ==
    \E s \in Slots, t \in Slots :
        /\ Answered(s, "upload") /\ slots[s].resp.status = 400
        /\ slots[s].resp.req.name = <<>>
        /\ slots[s].resp.req.file # NoUpload
        /\ slots[t].pc = "create"

\* C27: an upload answered 500 has changed no storage object of a Model row
\* that existed when it wrote, and the step that answers 500 changes no row.
C27_FailedUploadChangesNothing ==
    /\ [](\A s \in Slots :
             Answered(s, "upload") /\ slots[s].resp.status = 500
             => slots[s].resp.overwritten = {})
    /\ [][\A s \in Slots :
             /\ slots[s].pc = "create"
             /\ slots'[s].pc = "done"
             /\ slots'[s].resp.status = 500
             => models' = models]_vars

\* C28: whatever a DELETE of the same model is doing, a predict request
\* is forwarded only with a model_path whose storage object exists at the
\* moment of the forward.
C28_ForwardedPathExists ==
    [][\A s \in Slots :
          slots[s].pc = "idle" /\ slots'[s].pc = "forwarded"
          => slots'[s].model.s3ModelKey \in DOMAIN storage]_vars

\* C29: the server starts listening only after the database connection was
\* made, and it ends up listening whether or not the connection succeeds.
C29_ListensEvenWithoutDb ==
    /\ [][server' = "listening" => server \in {"connected", "listening"}]_vars
    /\ <>(server = "listening")

\* C29, what holds: the server starts listening only after connectDB has
\* connected, and it ends up listening or exited.
C29_ListensOrExits ==
    /\ [][server' = "listening" => server \in {"connected", "listening"}]_vars
    /\ <>(server \in {"listening", "exited"})

\* C30: the answer to GET /api/models/:slug never contains s3ModelKey, for
\* the owner and for every other requester.
C30_FetchHidesStorageKey ==
    \A s \in Slots :
        Answered(s, "get") => "s3ModelKey" \notin slots[s].resp.fields

\* C30 witness: the owner has fetched their model and got its apiKey and its
\* other fields, without s3ModelKey.
C30_Witness ==
    \E s \in Slots :
        /\ Answered(s, "get") /\ slots[s].resp.status = 200
        /\ slots[s].resp.req.token.userId = slots[s].resp.row.userId
        /\ Verifies(slots[s].resp.req.token)
        /\ slots[s].resp.fields = RowFields \ {"s3ModelKey"}

====
